---- MODULE Spec2Model ----
(***************************************************************************)
(* Model of the submission workflow of src/src/App.tsx: the React          *)
(* component App with its state (formData, isLoading, result, error), its  *)
(* event handlers and the asynchronous webhook exchange of handleSubmit.   *)
(*                                                                         *)
(* Conventions                                                             *)
(*  - a JavaScript string typed by the user is a sequence of one-character *)
(*    strings, so that String.prototype.trim is computed, not assumed;     *)
(*  - a nullable value is a sequence of length at most one: None is null   *)
(*    (or undefined / absent), Some(x) is the value x;                     *)
(*  - one action is one run of a handler up to its next suspension point.  *)
(*    React batches the setState calls of such a run and renders once, so  *)
(*    the intermediate assignments of a run are not observable states.     *)
(***************************************************************************)
EXTENDS Integers, Sequences, FiniteSets, TLC

\* ------------------------------------------------------------------------
\* Bounds of the model
MaxRecipients == 2    \* most recipient slots the user adds
MaxPending == 2       \* most webhook requests the model lets be in flight

None == <<>>
Some(x) == <<x>>

\* ------------------------------------------------------------------------
\* Strings and the conversions applied to them
WhiteSpace == {" ", "\t", "\n"}

RECURSIVE TrimStart(_)
TrimStart(s) ==
  IF s = <<>> THEN s
  ELSE IF Head(s) \in WhiteSpace THEN TrimStart(Tail(s)) ELSE s

RECURSIVE TrimEnd(_)
TrimEnd(s) ==
  IF s = <<>> THEN s
  ELSE IF s[Len(s)] \in WhiteSpace THEN TrimEnd(SubSeq(s, 1, Len(s) - 1)) ELSE s

\* String.prototype.trim as used at lines 60 and 62
Trim(s) == TrimEnd(TrimStart(s))

Digits == <<"0", "1", "2", "3", "4", "5", "6", "7", "8", "9">>
DigitSet == {Digits[i] : i \in 1..10}
DigitValue(c) == (CHOOSE i \in 1..10 : Digits[i] = c) - 1

RECURSIVE ParseDigits(_, _, _)
ParseDigits(s, acc, seen) ==
  IF s # <<>> /\ Head(s) \in DigitSet
    THEN ParseDigits(Tail(s), 10 * acc + DigitValue(Head(s)), TRUE)
    ELSE IF seen THEN Some(acc) ELSE None

\* parseInt(string) of lines 73-74: leading white space skipped, optional
\* sign, longest prefix of decimal digits; None is NaN
ParseInt(s) ==
  LET t == TrimStart(s)
      neg == t # <<>> /\ Head(t) = "-"
      u == IF t # <<>> /\ Head(t) \in {"-", "+"} THEN Tail(t) ELSE t
      r == ParseDigits(u, 0, FALSE)
  IN IF r = None THEN None ELSE IF neg THEN Some(0 - r[1]) ELSE r

\* Date.prototype.toISOString of line 77, for the clock reading t
ToISOString(t) == [iso |-> t]

\* ------------------------------------------------------------------------
\* Values the user can give to the inputs of the form (lines 147-248)
FieldNames ==
  {"jobRole", "difficultyLevel", "objectiveQuestions", "programmingQuestions",
   "submitterEmail"}
\* texts typed into a recipient slot: empty, white space only, and two
\* addresses, one of them with white space around it
RecipientInputs == {<<>>, <<" ">>, <<"a">>, <<" ", "b", " ">>}
SubmitterInputs == {<<>>, <<" ", "\t">>, <<"m", " ">>}
FieldInputs(name) ==
  CASE name = "jobRole" -> {<<>>, <<"d", "e", "v">>}
    [] name = "difficultyLevel" -> {"", "hard"}
    [] name = "objectiveQuestions" -> {<<>>, <<"1", "0">>}
    [] name = "programmingQuestions" -> {<<>>, <<"5", "x">>}
    [] name = "submitterEmail" -> SubmitterInputs
\* readings of the clock by new Date() (line 77)
ClockReadings == {1, 2}

\* ------------------------------------------------------------------------
\* Messages
SubmitterEmailMsg == "Please enter your email address"
RecipientEmailMsg == "Please provide at least one recipient email address"
NotConfiguredMsg == "N8N webhook URL not configured. Please set VITE_N8N_WEBHOOK_URL in your .env file"
FailedMsg == "Failed to generate questions"
FallbackMsg == "An error occurred"
DefaultSuccessMsg == "Questions generated and email sent successfully!"
\* messages of the exceptions the platform raises
FetchFailedMsg == "Failed to fetch"
JsonSyntaxMsg == "Unexpected token '<' is not valid JSON"
NullBodyMsg == "Cannot read properties of null (reading 'success')"

\* ------------------------------------------------------------------------
\* What the endpoint (or the network) answers to one request
Bodies ==
  {[json |-> "invalid", success |-> None, message |-> None],
   [json |-> "null", success |-> None, message |-> None]}
  \cup [json : {"object"},
        success : {None, Some(TRUE), Some(FALSE)},
        message : {None, Some(""), Some("Sent 15 questions")}]
Statuses == {200, 201, 404, 500}
NoBody == [json |-> "invalid", success |-> None, message |-> None]
Responses ==
  [kind : {"reject"}, isError : BOOLEAN, status : {0}, body : {NoBody}]
  \cup [kind : {"response"}, isError : {TRUE}, status : Statuses, body : Bodies]
\* (mutation: the status is never looked at)
OkAlways(response) == TRUE
\* Response.ok of line 94
Ok(response) == response.status >= 200 /\ response.status <= 299

\* import.meta.env.VITE_N8N_WEBHOOK_URL of line 80; "" is the unset variable
WebhookUrls == {"", "https://n8n.example/webhook/interview"}

VARIABLES formData, isLoading, result, error, webhookUrl, pending, sent, lastEvent

vars == <<formData, isLoading, result, error, webhookUrl, pending, sent, lastEvent>>

\* the state useState is given at lines 19-26, and resetForm at 112-119
DefaultFormData ==
  [jobRole |-> <<>>, difficultyLevel |-> "", objectiveQuestions |-> <<>>,
   programmingQuestions |-> <<>>, submitterEmail |-> <<>>,
   recipientEmails |-> << <<>> >>]

\* history: the last event handled, with what it was given and what it built
\* (n is the number of recipient slots when the event arrived; index and
\* value are the arguments of a recipient handler; request is what was known
\* of the request a response answers)
Event(op, payload, response) ==
  [op |-> op, n |-> Len(formData.recipientEmails), payload |-> payload,
   response |-> response, index |-> 0, value |-> None, request |-> None]

Init ==
  /\ formData = DefaultFormData
  /\ isLoading = FALSE
  /\ result = None
  /\ error = None
  /\ webhookUrl \in WebhookUrls
  /\ pending = 0
  /\ sent = None
  /\ lastEvent = [op |-> "init", n |-> 1, payload |-> None, response |-> None,
                  index |-> 0, value |-> None, request |-> None]

\* the form is rendered when there is no result (line 141), the success view
\* otherwise (line 293)
FormShown == result = None

\* (mutation: a submit button that is never disabled)
SubmitEnabledWhileLoading == FormShown
\* the submit button is disabled while isLoading (line 280)
SubmitEnabled == FormShown /\ ~isLoading

\* (mutation: the test without trim)
NonBlankNoTrim(email) == email # <<>>
\* the predicate email => email.trim() !== '' of line 60
NonBlank(email) == Trim(email) # <<>>

\* formData.recipientEmails.filter(email => email.trim() !== '') of line 60
RECURSIVE ValidRecipientEmails(_)
ValidRecipientEmails(emails) ==
  IF emails = <<>> THEN <<>>
  ELSE IF NonBlank(Head(emails))
         THEN <<Head(emails)>> \o ValidRecipientEmails(Tail(emails))
         ELSE ValidRecipientEmails(Tail(emails))

\* (mutation: the last slot is removed whatever the index)
RemoveLast(emails, index) == SubSeq(emails, 1, Len(emails) - 1)
\* emails.filter((_, i) => i !== index) with index 0-based (line 48)
RemoveAt(emails, index) ==
  [j \in 1..(Len(emails) - 1) |-> IF j <= index THEN emails[j] ELSE emails[j + 1]]

\* (mutation: the payload carries the unfiltered list)
BuildPayloadUnfiltered(fd, validRecipientEmails, now) ==
  [jobRole |-> fd.jobRole,
   difficultyLevel |-> fd.difficultyLevel,
   objectiveQuestions |-> ParseInt(fd.objectiveQuestions),
   programmingQuestions |-> ParseInt(fd.programmingQuestions),
   submitterEmail |-> fd.submitterEmail,
   recipientEmails |-> fd.recipientEmails,
   submittedAt |-> ToISOString(now)]
\* the payload of lines 70-78
BuildPayload(fd, validRecipientEmails, now) ==
  [jobRole |-> fd.jobRole,
   difficultyLevel |-> fd.difficultyLevel,
   objectiveQuestions |-> ParseInt(fd.objectiveQuestions),
   programmingQuestions |-> ParseInt(fd.programmingQuestions),
   submitterEmail |-> fd.submitterEmail,
   recipientEmails |-> validRecipientEmails,
   submittedAt |-> ToISOString(now)]

\* ------------------------------------------------------------------------
\* Handlers

handleInputChange(name, value) ==
  /\ FormShown
  /\ formData' = [formData EXCEPT ![name] = value]
  /\ lastEvent' = Event("handleInputChange", None, None)
  /\ UNCHANGED <<isLoading, result, error, webhookUrl, pending, sent>>

\* index is the 0-based index of the slot, as in the source
handleRecipientEmailChange(index, value) ==
  /\ FormShown
  /\ index + 1 \in DOMAIN formData.recipientEmails
  /\ formData' = [formData EXCEPT !.recipientEmails[index + 1] = value]
  /\ lastEvent' = [Event("handleRecipientEmailChange", None, None)
                     EXCEPT !.index = index, !.value = Some(value)]
  /\ UNCHANGED <<isLoading, result, error, webhookUrl, pending, sent>>

addRecipientEmail ==
  /\ FormShown
  /\ Len(formData.recipientEmails) < MaxRecipients
  /\ formData' = [formData EXCEPT !.recipientEmails = Append(@, <<>>)]
  /\ lastEvent' = Event("addRecipientEmail", None, None)
  /\ UNCHANGED <<isLoading, result, error, webhookUrl, pending, sent>>

\* (mutation: the length test dropped)
RemoveAllowedAlways(emails) == TRUE
\* formData.recipientEmails.length > 1 of line 47
RemoveAllowed(emails) == Len(emails) > 1

\* the button is rendered for lists longer than one (line 249); the handler
\* tests the length again (line 47) and is modelled for every list
removeRecipientEmail(index) ==
  /\ FormShown
  /\ index + 1 \in DOMAIN formData.recipientEmails
  /\ formData' = IF RemoveAllowed(formData.recipientEmails)
                   THEN [formData EXCEPT !.recipientEmails = RemoveAt(@, index)]
                   ELSE formData
  /\ lastEvent' = [Event("removeRecipientEmail", None, None) EXCEPT !.index = index]
  /\ UNCHANGED <<isLoading, result, error, webhookUrl, pending, sent>>

\* (mutation: a reset that keeps the recipient list)
ResetFormDataKeepingRecipients ==
  [DefaultFormData EXCEPT !.recipientEmails = formData.recipientEmails]
\* the object given to setFormData at lines 112-119
ResetFormData == DefaultFormData

\* (mutation: a reset control offered in every view)
ResetOfferedAlways == TRUE
\* the reset button belongs to the success view only (lines 293-319)
ResetOffered == ~FormShown

resetForm ==
  /\ ResetOffered
  /\ formData' = ResetFormData
  /\ result' = None
  /\ error' = None
  /\ lastEvent' = Event("resetForm", None, None)
  /\ UNCHANGED <<isLoading, webhookUrl, pending, sent>>

\* (mutation: the test without trim)
SubmitterMissingNoTrim(fd) == fd.submitterEmail = <<>>
\* !formData.submitterEmail.trim() of line 62
SubmitterMissing(fd) == Trim(fd.submitterEmail) = <<>>
\* (mutation: the recipient test never fails)
RecipientsMissingNever(validRecipientEmails) == FALSE
\* validRecipientEmails.length === 0 of line 66
RecipientsMissing(validRecipientEmails) == Len(validRecipientEmails) = 0
\* (mutation: the endpoint address is never tested)
NotConfiguredNever(url) == FALSE
\* !webhookUrl of line 82
NotConfigured(url) == url = ""

\* (mutation: the endpoint is looked up before the form is validated)
SubmitErrorConfigFirst(fd, url) ==
  IF NotConfigured(url) THEN Some(NotConfiguredMsg)
  ELSE IF SubmitterMissing(fd) THEN Some(SubmitterEmailMsg)
  ELSE IF RecipientsMissing(ValidRecipientEmails(fd.recipientEmails))
    THEN Some(RecipientEmailMsg)
  ELSE None
\* the error the synchronous part of handleSubmit throws, None when it
\* reaches fetch: the checks of lines 62, 66 and 82 in the order of the code
SubmitError(fd, url) ==
  IF SubmitterMissing(fd) THEN Some(SubmitterEmailMsg)
  ELSE IF RecipientsMissing(ValidRecipientEmails(fd.recipientEmails))
    THEN Some(RecipientEmailMsg)
  ELSE IF NotConfigured(url) THEN Some(NotConfiguredMsg)
  ELSE None

\* the payload is built (lines 70-78) once both validations have passed
PayloadBuilt(fd) ==
  ~SubmitterMissing(fd) /\ ~RecipientsMissing(ValidRecipientEmails(fd.recipientEmails))

\* err instanceof Error ? err.message : 'An error occurred' (line 105)
CatchMessage(isError, message) == IF isError THEN message ELSE FallbackMsg

\* (mutation: the previous error is left in place)
ErrorAtSubmitKept == error
\* what handleSubmit assigns to error before anything else (line 55)
ErrorAtSubmit == None

\* (mutation: the finally block leaves isLoading set)
IsLoadingAtEndStuck == TRUE
\* what the finally block assigns to isLoading (line 107)
IsLoadingAtEnd == FALSE

\* what is known of the request when fetch is called (history): whether the
\* form it was built from had a non-blank submitterEmail and a non-blank
\* recipient, and whether an endpoint address was configured
RequestFacts(fd, url) ==
  [submitter |-> \E i \in 1..Len(fd.submitterEmail) :
                   fd.submitterEmail[i] \notin {" ", "\t", "\n"},
   recipient |-> \E k \in 1..Len(fd.recipientEmails) :
                   \E i \in 1..Len(fd.recipientEmails[k]) :
                     fd.recipientEmails[k][i] \notin {" ", "\t", "\n"},
   configured |-> url # ""]

\* handleSubmit from the submit event to the await of fetch, or to the end
\* of the finally block when a check throws first (lines 53-92, 104-108)
handleSubmit(now) ==
  /\ SubmitEnabled
  /\ pending < MaxPending
  /\ LET fd == formData
         thrown == SubmitError(fd, webhookUrl)
         payload == IF PayloadBuilt(fd)
                      THEN Some(BuildPayload(fd, ValidRecipientEmails(fd.recipientEmails), now))
                      ELSE None
     IN /\ result' = None
        /\ IF thrown # None
             THEN /\ error' = Some(CatchMessage(TRUE, thrown[1]))
                  /\ isLoading' = IsLoadingAtEnd
                  /\ pending' = pending
                  /\ sent' = sent
             ELSE /\ error' = ErrorAtSubmit
                  /\ isLoading' = TRUE
                  /\ pending' = pending + 1
                  /\ sent' = Some(RequestFacts(fd, webhookUrl))
        /\ lastEvent' = Event("handleSubmit", payload, None)
  /\ UNCHANGED <<formData, webhookUrl>>

\* data.success || true of line 101
ResultSuccess(data) == IF data.success # None /\ data.success[1] THEN data.success[1] ELSE TRUE
\* (mutation: the message of the body is ignored)
ResultMessageCanned(data) == DefaultSuccessMsg
\* data.message || '...' of line 102: an empty string is falsy
ResultMessage(data) ==
  IF data.message # None /\ data.message[1] # "" THEN data.message[1] ELSE DefaultSuccessMsg

\* the outcome of lines 94-103 for a response: the message of the error
\* thrown, or the result set
ResponseError(response) ==
  IF response.kind = "reject"
    THEN Some(CatchMessage(response.isError, FetchFailedMsg))
  ELSE IF ~Ok(response) THEN Some(CatchMessage(TRUE, FailedMsg))
  ELSE IF response.body.json = "invalid" THEN Some(CatchMessage(TRUE, JsonSyntaxMsg))
  ELSE IF response.body.json = "null" THEN Some(CatchMessage(TRUE, NullBodyMsg))
  ELSE None

\* handleSubmit from the settlement of fetch to the end of the finally block
\* (lines 86-108)
handleResponse(response) ==
  /\ pending > 0
  /\ pending' = pending - 1
  /\ LET thrown == ResponseError(response)
     IN IF thrown # None
          THEN /\ error' = thrown
               /\ result' = result
          ELSE /\ result' = Some([success |-> ResultSuccess(response.body),
                                  message |-> ResultMessage(response.body)])
               /\ error' = error
  /\ isLoading' = IsLoadingAtEnd
  /\ sent' = None
  /\ lastEvent' = [Event("handleResponse", None, Some(response)) EXCEPT !.request = sent]
  /\ UNCHANGED <<formData, webhookUrl>>

Next ==
  \/ \E name \in FieldNames : \E value \in FieldInputs(name) : handleInputChange(name, value)
  \/ \E index \in 0..(MaxRecipients - 1) : \E value \in RecipientInputs :
       handleRecipientEmailChange(index, value)
  \/ addRecipientEmail
  \/ \E index \in 0..(MaxRecipients - 1) : removeRecipientEmail(index)
  \/ \E now \in ClockReadings : handleSubmit(now)
  \/ \E response \in Responses : handleResponse(response)
  \/ resetForm

Spec == Init /\ [][Next]_vars

\* the promise of fetch settles (the endpoint answers, or the network fails)
\* and the event loop then resumes handleSubmit after its await
Settle == \E response \in Responses : handleResponse(response)
FairSpec == Spec /\ WF_vars(Settle)

\* ------------------------------------------------------------------------
\* Vocabulary of the properties, stated without the operators of the model

\* a text that is empty or made of white space only
IsBlank(s) == \A i \in 1..Len(s) : s[i] \in {" ", "\t", "\n"}
AllRecipientsBlank == \A i \in DOMAIN formData.recipientEmails : IsBlank(formData.recipientEmails[i])
\* the form passes both validations
FormValid == ~IsBlank(formData.submitterEmail) /\ ~AllRecipientsBlank
\* the last event was a submit (handleSubmit leaves formData as it found it)
Submitted == lastEvent.op = "handleSubmit"
\* that submit made no request and left the form idle
NoRequestMade == pending = 0 /\ ~isLoading /\ result = None
\* the last event was the handling of an answer of the endpoint
Answered == lastEvent.op = "handleResponse" /\ lastEvent.response[1].kind = "response"
AnswerStatus == lastEvent.response[1].status
AnswerBody == lastEvent.response[1].body

\* ------------------------------------------------------------------------
\* C1: in every reachable state recipientEmails has at least one entry, and
\* a removeRecipientEmail on a list of exactly one entry leaves the list as
\* it was.
C1_RecipientsNeverEmpty ==
  /\ [](Len(formData.recipientEmails) >= 1)
  /\ [][(lastEvent'.op = "removeRecipientEmail" /\ Len(formData.recipientEmails) = 1)
          => formData'.recipientEmails = formData.recipientEmails]_vars

C1_Witness ==
  /\ lastEvent.op = "removeRecipientEmail"
  /\ lastEvent.n = 1
  /\ formData.recipientEmails = << <<"a">> >>

\* C2: a submit with an empty or all-white-space submitterEmail ends with
\* the submitter-email message as the error, whatever the recipients and
\* the endpoint configuration, and makes no request.
C2_BlankSubmitterRejected ==
  (Submitted /\ IsBlank(formData.submitterEmail))
    => (error = Some(SubmitterEmailMsg) /\ NoRequestMade)

C2_Witness ==
  /\ Submitted
  /\ formData.submitterEmail = <<" ", "\t">>
  /\ ~AllRecipientsBlank
  /\ webhookUrl # ""
  /\ error = Some(SubmitterEmailMsg)

\* C3 as stated: a submit with every recipient entry blank always ends with
\* the recipient message as the error and makes no request.
C3_AsStated ==
  (Submitted /\ AllRecipientsBlank)
    => (error = Some(RecipientEmailMsg) /\ NoRequestMade)

\* C3 as amended: a submit with every recipient entry blank makes no request;
\* the error is the recipient message when submitterEmail is not blank, and
\* the submitter-email message (checked first) when it is blank too.
C3_BlankRecipientsRejected ==
  (Submitted /\ AllRecipientsBlank)
    => /\ NoRequestMade
       /\ error = IF IsBlank(formData.submitterEmail)
                    THEN Some(SubmitterEmailMsg)
                    ELSE Some(RecipientEmailMsg)

C3_Witness ==
  /\ Submitted
  /\ formData.submitterEmail = <<"m", " ">>
  /\ formData.recipientEmails = << <<>>, <<" ">> >>
  /\ webhookUrl # ""
  /\ error = Some(RecipientEmailMsg)

\* C4: after a submit of a form with a non-blank submitterEmail and at least
\* one non-blank recipient, the payload built has as recipientEmails exactly
\* the entries of the form that are non-blank after trimming, in their
\* order, blank entries left out; ["a", ""] gives ["a"].
C4_PayloadRecipients ==
  (Submitted /\ FormValid)
    => /\ lastEvent.payload # None
       /\ lastEvent.payload[1].recipientEmails
            = SelectSeq(formData.recipientEmails, LAMBDA e : ~IsBlank(e))
       /\ (formData.recipientEmails = << <<"a">>, <<>> >>
            => lastEvent.payload[1].recipientEmails = << <<"a">> >>)

C4_Witness ==
  /\ Submitted
  /\ formData.submitterEmail = <<"m", " ">>
  /\ formData.recipientEmails = << <<"a">>, <<>> >>
  /\ lastEvent.payload # None
  /\ lastEvent.payload[1].recipientEmails = << <<"a">> >>

\* C5: resetForm puts the workflow in exactly the initial state: every text
\* field empty, difficultyLevel unset, recipientEmails = [""], result null,
\* error null (and nothing loading or in flight).
C5_ResetRestoresInitial ==
  lastEvent.op = "resetForm"
    => /\ formData.jobRole = <<>>
       /\ formData.difficultyLevel = ""
       /\ formData.objectiveQuestions = <<>>
       /\ formData.programmingQuestions = <<>>
       /\ formData.submitterEmail = <<>>
       /\ formData.recipientEmails = << <<>> >>
       /\ result = None
       /\ error = None
       /\ ~isLoading
       /\ pending = 0

C5_Witness ==
  /\ lastEvent.op = "resetForm"
  /\ lastEvent.n = 2
  /\ formData.recipientEmails = << <<>> >>
  /\ result = None

\* C6: result and error are never both non-null.
C6_ResultErrorExclusive == ~(result # None /\ error # None)

C6_Witness ==
  /\ lastEvent.op = "handleResponse"
  /\ result # None
  /\ error = None

\* C7: at most one webhook request is in flight, and one is in flight only
\* while isLoading is true, that is while the submit button is disabled.
C7_OneRequestInFlight == pending <= 1 /\ (pending = 1 => isLoading)

C7_Witness == pending = 1 /\ isLoading /\ Submitted

\* C8: with no endpoint configured a submit makes no request; the error is
\* the configuration message when the form passes validation, and a
\* validation message, not the configuration message, when it does not.
C8_ConfigurationCheckedLast ==
  (Submitted /\ webhookUrl = "")
    => /\ NoRequestMade
       /\ FormValid => error = Some(NotConfiguredMsg)
       /\ ~FormValid => error \in {Some(SubmitterEmailMsg), Some(RecipientEmailMsg)}

C8_Witness ==
  /\ Submitted
  /\ webhookUrl = ""
  /\ FormValid
  /\ error = Some(NotConfiguredMsg)
  /\ pending = 0

\* C9: when the endpoint answers with a non-2xx status, whatever the body,
\* the workflow ends in Form (result null, isLoading false) with the generic
\* failure message as error, and the handling of the answer changes no field
\* of formData.
C9_FailureStatus ==
  /\ []((Answered /\ ~(AnswerStatus \in 200..299))
          => (result = None /\ ~isLoading /\ error = Some(FailedMsg)))
  /\ [][lastEvent'.op = "handleResponse" => formData' = formData]_vars

C9_Witness ==
  /\ Answered
  /\ AnswerStatus = 500
  /\ AnswerBody.json = "object"
  /\ AnswerBody.success = Some(TRUE)
  /\ AnswerBody.message = Some("Sent 15 questions")
  /\ error = Some(FailedMsg)
  /\ formData.recipientEmails = << <<"a">>, <<>> >>

\* C10 as stated: a 2xx answer with a JSON body carrying message m ends in
\* Success (result non-null, error null, isLoading false) with
\* result.message = m; without a message, result.message is the canned one.
C10_AsStated ==
  (Answered /\ AnswerStatus \in 200..299 /\ AnswerBody.json = "object")
    => /\ result # None /\ error = None /\ ~isLoading
       /\ result[1].message = IF AnswerBody.message # None
                                THEN AnswerBody.message[1]
                                ELSE DefaultSuccessMsg

\* C10 as amended: the same, m being a non-empty message; a body with no
\* message or with an empty one gives the canned message.
C10_SuccessMessage ==
  (Answered /\ AnswerStatus \in 200..299 /\ AnswerBody.json = "object")
    => /\ result # None /\ error = None /\ ~isLoading
       /\ result[1].message = IF AnswerBody.message # None /\ AnswerBody.message # Some("")
                                THEN AnswerBody.message[1]
                                ELSE DefaultSuccessMsg

C10_Witness ==
  /\ Answered
  /\ AnswerStatus = 200
  /\ AnswerBody.success = Some(TRUE)
  /\ AnswerBody.message = Some("Sent 15 questions")
  /\ result # None
  /\ result[1].message = "Sent 15 questions"

\* C11: on a 2xx answer with a JSON object body, result.success is the
\* success flag of the body when it has one, and true when it has none.
C11_SuccessFlag ==
  (Answered /\ AnswerStatus \in 200..299 /\ AnswerBody.json = "object")
    => /\ result # None
       /\ result[1].success = IF AnswerBody.success # None
                                THEN AnswerBody.success[1]
                                ELSE TRUE

\* C12: a submit attempt that has finished (isLoading false again) has set
\* exactly one of result and error, on every path.
C12_ExactlyOneOutcome ==
  (lastEvent.op \in {"handleSubmit", "handleResponse"} /\ ~isLoading)
    => ((result # None) # (error # None))

C12_Witness ==
  /\ lastEvent.op = "handleResponse"
  /\ lastEvent.response[1].kind = "response"
  /\ lastEvent.response[1].status = 200
  /\ lastEvent.response[1].body.json = "invalid"
  /\ ~isLoading
  /\ result = None
  /\ error = Some(JsonSyntaxMsg)

\* C13: a submit of an invalid form (blank submitterEmail or no non-blank
\* recipient) starts in Form and ends in Form with the error shown: neither
\* the state before nor the state after the submit has isLoading true.
C13_InvalidSubmitNeverLoading ==
  /\ []((Submitted /\ ~FormValid) => (~isLoading /\ error # None /\ result = None))
  /\ [][(lastEvent'.op = "handleSubmit" /\ ~FormValid)
          => (~isLoading /\ ~isLoading' /\ pending' = pending)]_vars

C13_Witness ==
  /\ Submitted
  /\ ~IsBlank(formData.submitterEmail)
  /\ AllRecipientsBlank
  /\ webhookUrl # ""
  /\ ~isLoading
  /\ error = Some(RecipientEmailMsg)

\* C14: while a request is in flight (isLoading true) no field of formData
\* changes.
C14_FormFrozenWhileLoading == [][isLoading => formData' = formData]_vars

\* C15: after a reset, result and error are null and no request is in
\* flight, and they stay so until the next submit: no response is handled
\* after resetForm that could set result or error again.
Quiet == result = None /\ error = None /\ pending = 0

C15_NoLateResponseAfterReset ==
  /\ [](lastEvent.op = "resetForm" => Quiet)
  /\ [][Quiet => (Quiet' \/ lastEvent'.op = "handleSubmit")]_vars

C15_Witness ==
  /\ lastEvent.op = "resetForm"
  /\ Quiet
  /\ ~isLoading

\* C16: after every failed attempt the workflow is in Form with isLoading
\* false, so that submit is enabled again; and, every request sent being
\* eventually settled, every Loading state is eventually left.
C16_NoFailureIsTerminal ==
  /\ []((lastEvent.op \in {"handleSubmit", "handleResponse"} /\ error # None)
          => (~isLoading /\ result = None))
  /\ (isLoading ~> ~isLoading)

C16_Witness ==
  /\ lastEvent.op = "handleResponse"
  /\ lastEvent.response[1].kind = "reject"
  /\ error = Some(FetchFailedMsg)
  /\ ~isLoading
  /\ result = None

\* C17: result is non-null only after a 2xx response to a request that was
\* sent from a form with a non-blank submitterEmail and a non-blank
\* recipient, with an endpoint configured; result is set only from Loading;
\* and the only step out of Success is the reset to the default Form.
C17_SuccessOnlyBy2xx ==
  /\ [](result # None
          => /\ lastEvent.op = "handleResponse"
             /\ lastEvent.response[1].kind = "response"
             /\ lastEvent.response[1].status \in 200..299
             /\ lastEvent.request
                  = Some([submitter |-> TRUE, recipient |-> TRUE, configured |-> TRUE])
             /\ ~isLoading)
  /\ [][(result = None /\ result' # None) => (isLoading /\ pending > 0)]_vars
  /\ [][result # None
          => /\ lastEvent'.op = "resetForm"
             /\ result' = None
             /\ error' = None
             /\ formData' = [jobRole |-> <<>>, difficultyLevel |-> "",
                             objectiveQuestions |-> <<>>, programmingQuestions |-> <<>>,
                             submitterEmail |-> <<>>, recipientEmails |-> << <<>> >>]]_vars

C17_Witness ==
  /\ result # None
  /\ lastEvent.op = "handleResponse"
  /\ lastEvent.response[1].status = 201
  /\ IsBlank(formData.submitterEmail)

\* C18: removeRecipientEmail(i) on a list longer than one gives the other
\* entries in their order; handleRecipientEmailChange(i, v) sets slot i to v
\* and no other slot; addRecipientEmail appends one empty entry; and none of
\* the three changes another field of formData, result, error or isLoading.
RecipientFrame ==
  /\ formData'.jobRole = formData.jobRole
  /\ formData'.difficultyLevel = formData.difficultyLevel
  /\ formData'.objectiveQuestions = formData.objectiveQuestions
  /\ formData'.programmingQuestions = formData.programmingQuestions
  /\ formData'.submitterEmail = formData.submitterEmail
  /\ result' = result
  /\ error' = error
  /\ isLoading' = isLoading

====
